---- MODULE Spec2Model ----
(***************************************************************************)
(* Model of firenzeme/web-infra.                                           *)
(*                                                                         *)
(*  - the Cognito pre-token-generation hook (lib/cognito-lambda-stack.ts), *)
(*    a JavaScript handler kept as a string literal;                       *)
(*  - the instance bootstrap procedure: the EC2 user-data commands and the *)
(*    /usr/local/bin/deploy-api script they write and run.  Three variants *)
(*    of it are in the repository: "V2" (unnamed/part_001, instance        *)
(*    WebApiInstance), "V3" (lib/web-infra-stack.ts, WebApiInstanceV3) and *)
(*    "V4" (unnamed/part_000, WebApiInstanceV4);                           *)
(*  - the stack declarations: what a deployment for an environment name    *)
(*    declares (listener rule, rewrite rules, host names, configuration).  *)
(*                                                                         *)
(* Three specifications: SpecHook runs the hook, Spec runs the bootstrap,  *)
(* SpecStack deploys stacks.                                               *)
(***************************************************************************)
EXTENDS Integers, Sequences, FiniteSets, TLC

VARIABLES
    \* ---- identity hook ----
    event,        \* the event object the handler was last called with / returned
    hookStatus,   \* "idle" | "returned" | "threw": how the last invocation ended
    hookLog,      \* one entry per finished invocation: its input, outcome, output
    \* ---- bootstrap procedure ----
    variant,      \* which stack declaration the instance was created from
    envName,      \* props.envName
    phase,        \* "boot" (user data, first boot) | "deploy" (deploy-api re-run)
                  \* | "idle" (the instance or origin changed since the last run)
    pc,           \* the command about to run, or "done"
    arg,          \* $1 of the current deploy-api invocation
    branch,       \* $BRANCH as resolved by the current invocation (V4)
    log,          \* commands executed by the current run, in order
    firstFail,    \* index in log of the first command that failed, 0 if none
    firstFailRc,  \* its exit status
    rc,           \* $?: exit status of the last command executed
    exitStatus,   \* exit status of the finished run, -1 while running
    runs,         \* number of deploy-api re-invocations so far
    script,       \* /usr/local/bin/deploy-api: "none" | "written" | "executable"
    drifted,      \* the clone was dirty or had local commits when this run began
    startedOn,    \* the local branch checked out, and the branch of its tree, when this run began
    remoteTip,    \* origin: branch -> number of its tip commit
    pushes,       \* commits pushed to origin since the instance was created
    clone,        \* the local clone in /home/ec2-user/firenze-api
    built,        \* what scripts/deploy-ec2.sh was last run on
    pm2Saved,     \* pm2 process list persisted for ec2-user
    bootRegistered, \* pm2 registered with systemd
    secret,       \* version of the github-token secret in the secret store
    token,        \* $TOKEN of the current run, -1 while unset
    originToken,  \* the token in the clone's origin URL, -1 without a clone
    cred,         \* the token the last git transfer of this run used, -1 if none
    environment,  \* $ENVIRONMENT in the ec2-user shell, "" while unset
    buildEnv,     \* $ENVIRONMENT as scripts/deploy-ec2.sh last saw it
    \* ---- stack declarations ----
    stacks,       \* stack name suffix (environment name) -> variant deployed, or "none"
    synth         \* the last "cdk deploy -c env=...": its context, variant and outcome

hookVars == <<event, hookStatus, hookLog>>
bootVars == <<variant, envName, phase, pc, arg, branch, log, firstFail, firstFailRc,
              rc, exitStatus, runs, script, drifted, startedOn, remoteTip, pushes,
              clone, built, pm2Saved, bootRegistered, secret, token, originToken, cred,
              environment, buildEnv>>
stackVars == <<stacks, synth>>
vars == <<hookVars, bootVars, stackVars>>

(***************************************************************************)
(* Bounds                                                                  *)
(***************************************************************************)
MaxInvocations == 2
MaxRuns == 1
MaxPushes == 1
MaxRotations == 1
MaxReruns == 2

(***************************************************************************)
(* JavaScript values                                                       *)
(***************************************************************************)
Undefined == <<"undefined">>
Null == <<"null">>
Str(s) == <<"string", s>>

AttrStrings == {"", "acme", "globex"}
AttrKeys == {"custom:domainId", "email"}
JSAttrValues == {Undefined} \cup {Str(s) : s \in AttrStrings}

\* JavaScript truthiness of the values an attribute lookup can give
Truthy(v) == v # Undefined /\ v # Null /\ v # Str("")

\* a || b
OrElse(a, b) == IF Truthy(a) THEN a ELSE b

(***************************************************************************)
(* The hook                                                                *)
(***************************************************************************)
\* event.response as the handler assigns it
Response(domainId) ==
    [defined |-> TRUE, accessTokenGeneration |-> domainId, idTokenGeneration |-> domainId]

NoResponse ==
    [defined |-> FALSE, accessTokenGeneration |-> Undefined, idTokenGeneration |-> Undefined]

\* a response some earlier stage left on the event
StaleResponse ==
    [defined |-> TRUE, accessTokenGeneration |-> Str("stale"), idTokenGeneration |-> Undefined]

\* event.request, with userAttributes possibly missing
Requests ==
    {[defined |-> FALSE, hasUserAttributes |-> FALSE,
      userAttributes |-> [k \in AttrKeys |-> Undefined]]}
    \cup {[defined |-> TRUE, hasUserAttributes |-> FALSE,
           userAttributes |-> [k \in AttrKeys |-> Undefined]]}
    \cup {[defined |-> TRUE, hasUserAttributes |-> TRUE, userAttributes |-> a] :
            a \in [AttrKeys -> JSAttrValues]}

\* one of the fields the handler never names
TriggerSources == {"TokenGeneration_Authentication", "TokenGeneration_RefreshTokens"}

Events ==
    [request : Requests, response : {NoResponse, StaleResponse},
     triggerSource : TriggerSources]

\* event.request.userAttributes[...] raises a TypeError when request or
\* userAttributes is undefined
Throws(e) == ~e.request.defined \/ ~e.request.hasUserAttributes

HandlerMutantKeepsResponse(e) ==
    IF Throws(e)
    THEN [status |-> "threw", event |-> e]
    ELSE LET domainId == OrElse(e.request.userAttributes["custom:domainId"], Null)
         IN  [status |-> "returned",
              event |-> [e EXCEPT !.response =
                            IF e.response.defined THEN e.response
                            ELSE Response(domainId)]]

HandlerMutantDropsEmail(e) ==
    IF Throws(e)
    THEN [status |-> "threw", event |-> e]
    ELSE LET domainId == OrElse(e.request.userAttributes["custom:domainId"], Null)
         IN  [status |-> "returned",
              event |-> [e EXCEPT !.response = Response(domainId),
                                  !.request.userAttributes["email"] = Undefined]]

HandlerMutantAccessOnly(e) ==
    IF Throws(e)
    THEN [status |-> "threw", event |-> e]
    ELSE LET domainId == OrElse(e.request.userAttributes["custom:domainId"], Null)
         IN  [status |-> "returned",
              event |-> [e EXCEPT !.response =
                            [Response(domainId) EXCEPT !.idTokenGeneration = Undefined]]]

\* exports.handler
Handler(e) ==
    IF Throws(e)
    THEN [status |-> "threw", event |-> e]
    ELSE LET domainId == OrElse(e.request.userAttributes["custom:domainId"], Null)
         IN  [status |-> "returned", event |-> [e EXCEPT !.response = Response(domainId)]]

HookCall(e) ==
    LET r == Handler(e)
    IN  /\ event' = r.event
        /\ hookStatus' = r.status
        /\ hookLog' = Append(hookLog, [in |-> e, status |-> r.status, out |-> r.event])

\* the identity provider invokes the hook on a token-issuance event
Invoke ==
    /\ Len(hookLog) < MaxInvocations
    /\ \E e \in Events : HookCall(e)
    /\ UNCHANGED <<bootVars, stackVars>>

\* the hook is invoked again on the event object it returned
InvokeOnReturned ==
    /\ Len(hookLog) < MaxInvocations
    /\ hookStatus = "returned"
    /\ HookCall(event)
    /\ UNCHANGED <<bootVars, stackVars>>

InitHookVars ==
    /\ event = [request |-> CHOOSE r \in Requests : ~r.defined, response |-> NoResponse,
                triggerSource |-> "TokenGeneration_Authentication"]
    /\ hookStatus = "idle"
    /\ hookLog = <<>>


(***************************************************************************)
(* The bootstrap procedure                                                 *)
(***************************************************************************)
Variants == {"V2", "V3", "V4"}
EnvNames == {"prod", "dev", "staging"}
Branches == {"main", "dev"}
FailCodes == {1, 2}

\* $# and $1 of a deploy-api invocation
NoArg == [supplied |-> FALSE, value |-> ""]
Args == {NoArg} \cup {[supplied |-> TRUE, value |-> s] : s \in Branches \cup {""}}

\* branch checked out by a plain "git clone" (origin's HEAD)
DefaultRemoteHead == "main"

\* DEFAULT_BRANCH=(envName === 'prod' ? 'main' : 'dev')
DefaultBranch(e) == IF e = "prod" THEN "main" ELSE "dev"

\* BRANCH="${1:-$DEFAULT_BRANCH}": the default also replaces an empty $1
ResolveBranch(e, a) ==
    IF a.supplied /\ a.value # "" THEN a.value ELSE DefaultBranch(e)

\* the user-data commands, in the order addCommands lists them
UserData(v) ==
    (IF v = "V4" THEN <<"swap">> ELSE <<>>)
    \o <<"yum_update", "node_setup", "yum_install", "npm_install",
         "write_script", "chmod_script", "invoke">>

\* deploy-api up to the test for an existing clone
\* ("su_env" is: su - ec2-user -c "set -e; export ENVIRONMENT=... ; in V2 the
\* token is fetched before it, by the invoking shell)
DeployHead(v) ==
    (IF v = "V4" THEN <<"resolve_branch">> ELSE <<>>)
    \o <<"mkdir", "chown">>
    \o (IF v = "V2" THEN <<"fetch_token", "su_env">> ELSE <<"su_env", "fetch_token">>)

\* the two arms of: if [ ! -d "$TARGET_DIR/.git" ]
\* (in V2 "$TARGET_DIR" is expanded by the invoking shell, where it is unset:
\* the test is on "/.git" and the clone arm is always taken)
SyncArm(v, hasClone) ==
    IF ~hasClone \/ v = "V2" THEN <<"git_clone">>
    ELSE IF v = "V4" THEN <<"set_url", "git_fetch", "git_reset">>
    ELSE <<"set_url", "git_pull">>

DeployTail ==
    <<"chmod_build", "build", "pm2_save_user", "pm2_startup", "pm2_save_root">>

\* the account a command of deploy-api runs under: the commands inside
\* su - ec2-user -c "..." run as ec2-user, the others as the invoking root;
\* the token is fetched inside the block in V3 and V4, before it in V2
UserOf(v, cmd) ==
    IF \/ cmd \in {"su_env", "git_clone", "set_url", "git_fetch", "git_reset",
                   "git_pull", "chmod_build", "build", "pm2_save_user"}
       \/ cmd = "fetch_token" /\ v # "V2"
    THEN "ec2-user" ELSE "root"

IndexOf(seq, x) == CHOOSE i \in 1..Len(seq) : seq[i] = x
InSeq(seq, x) == \E i \in 1..Len(seq) : seq[i] = x
NextIn(seq, x, after) ==
    IF IndexOf(seq, x) < Len(seq) THEN seq[IndexOf(seq, x) + 1] ELSE after

AfterMutantTokenFirst(v, cmd, hasClone) ==
    LET head == (IF v = "V4" THEN <<"resolve_branch">> ELSE <<>>)
                \o <<"fetch_token", "mkdir", "chown", "su_env">>
    IN  IF InSeq(UserData(v), cmd) THEN NextIn(UserData(v), cmd, head[1])
        ELSE IF InSeq(head, cmd) THEN NextIn(head, cmd, SyncArm(v, hasClone)[1])
        ELSE IF InSeq(SyncArm(v, hasClone), cmd)
             THEN NextIn(SyncArm(v, hasClone), cmd, DeployTail[1])
        ELSE NextIn(DeployTail, cmd, "done")

\* the command that follows cmd when the script goes on
After(v, cmd, hasClone) ==
    IF InSeq(UserData(v), cmd) THEN NextIn(UserData(v), cmd, DeployHead(v)[1])
    ELSE IF InSeq(DeployHead(v), cmd)
         THEN NextIn(DeployHead(v), cmd, SyncArm(v, hasClone)[1])
    ELSE IF InSeq(SyncArm(v, hasClone), cmd)
         THEN NextIn(SyncArm(v, hasClone), cmd, DeployTail[1])
    ELSE NextIn(DeployTail, cmd, "done")

\* commands of the user-data script itself, which has no "set -e"
OuterCmds == {"swap", "yum_update", "node_setup", "yum_install", "npm_install",
              "write_script", "chmod_script"}

\* commands whose only modelled effect is their exit status
PlainCmds == {"swap", "yum_update", "node_setup", "yum_install", "npm_install",
              "mkdir", "chown", "chmod_build"}

Commit(b, n) == [b |-> b, n |-> n]
NoCommit == Commit("none", 0)
Tip(b) == Commit(b, remoteTip[b])

\* (localBranch is the branch HEAD is attached to, locals the local branches)
NoClone == [present |-> FALSE, head |-> NoCommit, ahead |-> FALSE, dirty |-> FALSE,
            localBranch |-> "none", locals |-> {}, tracking |-> [b \in Branches |-> 0]]

NoStart == [local |-> "none", tree |-> "none"]

\* ---- bookkeeping shared by all commands ----
Record(cmd, status) ==
    /\ log' = Append(log, cmd)
    /\ rc' = status
    /\ firstFail' = IF firstFail = 0 /\ status # 0 THEN Len(log) + 1 ELSE firstFail
    /\ firstFailRc' = IF firstFail = 0 /\ status # 0 THEN status ELSE firstFailRc

\* the command succeeded: go on with the next one
Proceed(cmd) ==
    /\ Record(cmd, 0)
    /\ pc' = After(variant, cmd, clone.present)
    /\ exitStatus' = IF After(variant, cmd, clone.present) = "done" THEN 0 ELSE -1

\* the command failed with status s: under "set -e" (deploy-api and the su
\* shell inside it) the script exits with s; the user-data script goes on
Fail(cmd, s) ==
    /\ Record(cmd, s)
    /\ IF cmd \in OuterCmds
       THEN /\ pc' = After(variant, cmd, clone.present)
            /\ exitStatus' = -1
       ELSE /\ pc' = "done"
            /\ exitStatus' = s

Frame ==
    UNCHANGED <<hookVars, stackVars, variant, envName, phase, arg, runs, drifted,
                startedOn, remoteTip, pushes, secret>>

\* the frame of the commands that touch neither the token nor ENVIRONMENT
FrameAll == Frame /\ UNCHANGED <<token, originToken, cred, environment, buildEnv>>

\* yum, curl|bash, npm, dd/mkswap/swapon, mkdir, chown, chmod
RunPlain ==
    /\ pc \in PlainCmds
    /\ \/ Proceed(pc)
       \/ \E s \in FailCodes : Fail(pc, s)
    /\ UNCHANGED <<branch, script, clone, built, pm2Saved, bootRegistered>>
    /\ FrameAll

\* cat << "EOF" > /usr/local/bin/deploy-api
WriteScript ==
    /\ pc = "write_script"
    /\ \/ Proceed(pc) /\ script' = "written"
       \/ \E s \in FailCodes : Fail(pc, s) /\ script' = script
    /\ UNCHANGED <<branch, clone, built, pm2Saved, bootRegistered>>
    /\ FrameAll

\* chmod +x /usr/local/bin/deploy-api
ChmodScript ==
    /\ pc = "chmod_script"
    /\ \/ Proceed(pc) /\ script' = (IF script = "written" THEN "executable" ELSE script)
       \/ \E s \in FailCodes : Fail(pc, s) /\ script' = script
    /\ UNCHANGED <<branch, clone, built, pm2Saved, bootRegistered>>
    /\ FrameAll

\* /usr/local/bin/deploy-api, the last user-data command: its status is the
\* status of the user-data script
InvokeScript ==
    /\ pc = "invoke"
    /\ IF script = "executable"
       THEN /\ pc' = After(variant, pc, clone.present)
            /\ exitStatus' = -1
            /\ UNCHANGED <<rc, firstFail, firstFailRc>>
            /\ log' = Append(log, pc)
       ELSE /\ Record(pc, IF script = "none" THEN 127 ELSE 126)
            /\ pc' = "done"
            /\ exitStatus' = (IF script = "none" THEN 127 ELSE 126)
    /\ UNCHANGED <<branch, script, clone, built, pm2Saved, bootRegistered>>
    /\ FrameAll

EnvironmentLabelMutantNoMapping(e) == e

\* export ENVIRONMENT=(envName === 'prod' ? 'production' : envName)
EnvironmentLabel(e) == IF e = "prod" THEN "production" ELSE e

\* su - ec2-user -c "set -e; [BRANCH=...;] export ENVIRONMENT=...; export HOME=...
EnterSu ==
    /\ pc = "su_env"
    /\ \/ Proceed(pc) /\ environment' = EnvironmentLabel(envName)
       \/ \E s \in FailCodes : Fail(pc, s) /\ environment' = environment
    /\ UNCHANGED <<branch, script, clone, built, pm2Saved, bootRegistered, token,
                   originToken, cred, buildEnv>>
    /\ Frame

\* TOKEN=$(aws secretsmanager get-secret-value --secret-id github-token ...)
FetchToken ==
    /\ pc = "fetch_token"
    /\ \/ Proceed(pc) /\ token' = secret
       \/ \E s \in FailCodes : Fail(pc, s) /\ token' = token
    /\ UNCHANGED <<branch, script, clone, built, pm2Saved, bootRegistered, originToken,
                   cred, environment, buildEnv>>
    /\ Frame

\* git remote set-url origin "$REPO_URL", REPO_URL="https://${TOKEN}@github.com/..."
SetUrl ==
    /\ pc = "set_url"
    /\ \/ Proceed(pc) /\ originToken' = token
       \/ \E s \in FailCodes : Fail(pc, s) /\ originToken' = originToken
    /\ UNCHANGED <<branch, script, clone, built, pm2Saved, bootRegistered, token, cred,
                   environment, buildEnv>>
    /\ Frame

\* DEFAULT_BRANCH=... ; BRANCH="${1:-$DEFAULT_BRANCH}" (V4 only)
ResolveBranchStep ==
    /\ pc = "resolve_branch"
    /\ Proceed(pc)
    /\ branch' = ResolveBranch(envName, arg)
    /\ UNCHANGED <<script, clone, built, pm2Saved, bootRegistered>>
    /\ FrameAll

\* the branch a fresh clone checks out
CloneBranch(v, br) == IF v = "V4" THEN br ELSE DefaultRemoteHead

\* git clone [-b "$BRANCH"] "$REPO_URL" "$TARGET_DIR"; in V2 both arguments
\* were expanded by the invoking shell, where they are unset: git clone "" ""
\* cannot succeed
GitClone ==
    /\ pc = "git_clone"
    /\ \/ /\ variant # "V2"
          /\ CloneBranch(variant, branch) \in Branches
          /\ Proceed(pc)
          /\ clone' = [present |-> TRUE,
                       head |-> Tip(CloneBranch(variant, branch)),
                       ahead |-> FALSE, dirty |-> FALSE,
                       localBranch |-> CloneBranch(variant, branch),
                       locals |-> {CloneBranch(variant, branch)},
                       tracking |-> remoteTip]
          /\ originToken' = token
          /\ cred' = token
       \/ /\ \E s \in FailCodes : Fail(pc, s)
          /\ clone' = clone
          /\ UNCHANGED <<originToken, cred>>
    /\ UNCHANGED <<branch, script, built, pm2Saved, bootRegistered, token, environment,
                   buildEnv>>
    /\ Frame

\* git fetch origin "$BRANCH" (V4)
GitFetch ==
    /\ pc = "git_fetch"
    /\ \/ /\ branch \in Branches
          /\ Proceed(pc)
          /\ clone' = [clone EXCEPT !.tracking[branch] = remoteTip[branch]]
       \/ \E s \in FailCodes : Fail(pc, s) /\ clone' = clone
    /\ cred' = originToken
    /\ UNCHANGED <<branch, script, built, pm2Saved, bootRegistered, token, originToken,
                   environment, buildEnv>>
    /\ Frame

ResetHardMutantCheckout(c, br) ==
    [c EXCEPT !.head = Commit(br, c.tracking[br]), !.ahead = FALSE, !.dirty = FALSE,
              !.localBranch = br, !.locals = @ \cup {br}]

\* git reset --hard origin/$BRANCH: the current branch, the index and the
\* tracked files are moved to the remote-tracking ref
ResetHard(c, br) ==
    [c EXCEPT !.head = Commit(br, c.tracking[br]), !.ahead = FALSE, !.dirty = FALSE]

\* git reset --hard "origin/$BRANCH" (V4)
GitReset ==
    /\ pc = "git_reset"
    /\ \/ /\ branch \in Branches
          /\ Proceed(pc)
          /\ clone' = ResetHard(clone, branch)
       \/ \E s \in FailCodes : Fail(pc, s) /\ clone' = clone
    /\ UNCHANGED <<branch, script, built, pm2Saved, bootRegistered>>
    /\ FrameAll

\* the trees "git pull origin main" can leave when it succeeds:
\*  - nothing new on origin/main: nothing changes;
\*  - fast-forward: the head moves, uncommitted changes that do not touch the
\*    incoming files are kept;
\*  - local commits and new commits on origin/main: a merge commit.
PullResults(c) ==
    LET t == remoteTip["main"]
        fetched == [c EXCEPT !.tracking["main"] = t]
    IN  IF c.head.b = "main" /\ c.head.n = t THEN {fetched}
        ELSE IF c.head.b = "main" /\ ~c.ahead
             THEN {[fetched EXCEPT !.head = Commit("main", t)]}
        ELSE {[fetched EXCEPT !.head = Commit("main", t), !.ahead = TRUE]}

\* git pull origin main (V3); besides the failures any command has, it refuses
\* to overwrite local changes and to reconcile divergent branches
GitPull ==
    /\ pc = "git_pull"
    /\ \/ /\ Proceed(pc)
          /\ clone' \in PullResults(clone)
       \/ \E s \in FailCodes : Fail(pc, s) /\ clone' = clone
    /\ cred' = originToken
    /\ UNCHANGED <<branch, script, built, pm2Saved, bootRegistered, token, originToken,
                   environment, buildEnv>>
    /\ Frame

\* ./scripts/deploy-ec2.sh, run on the tree as it is
Build ==
    /\ pc = "build"
    /\ \/ /\ Proceed(pc)
          /\ built' = [head |-> clone.head, clean |-> ~clone.ahead /\ ~clone.dirty]
       \/ \E s \in FailCodes : Fail(pc, s) /\ built' = built
    /\ buildEnv' = environment
    /\ UNCHANGED <<branch, script, clone, pm2Saved, bootRegistered, token, originToken,
                   cred, environment>>
    /\ Frame

\* pm2 save, as ec2-user and again as root
Pm2Save ==
    /\ pc \in {"pm2_save_user", "pm2_save_root"}
    /\ \/ Proceed(pc) /\ pm2Saved' = (pm2Saved \/ pc = "pm2_save_user")
       \/ \E s \in FailCodes : Fail(pc, s) /\ pm2Saved' = pm2Saved
    /\ UNCHANGED <<branch, script, clone, built, bootRegistered>>
    /\ FrameAll

\* pm2 startup systemd -u ec2-user --hp /home/ec2-user
Pm2Startup ==
    /\ pc = "pm2_startup"
    /\ \/ Proceed(pc) /\ bootRegistered' = TRUE
       \/ \E s \in FailCodes : Fail(pc, s) /\ bootRegistered' = bootRegistered
    /\ UNCHANGED <<branch, script, clone, built, pm2Saved>>
    /\ FrameAll

\* an operator (or CI) runs /usr/local/bin/deploy-api [branch] again, at most n times
StartDeployWithin(n) ==
    /\ pc = "done"
    /\ script = "executable"
    /\ runs < n
    /\ \E a \in Args : arg' = a
    /\ phase' = "deploy"
    /\ pc' = DeployHead(variant)[1]
    /\ log' = <<>>
    /\ firstFail' = 0
    /\ firstFailRc' = 0
    /\ rc' = 0
    /\ exitStatus' = -1
    /\ branch' = ""
    /\ runs' = runs + 1
    /\ drifted' = (clone.present /\ (clone.dirty \/ clone.ahead))
    /\ startedOn' = [local |-> clone.localBranch, tree |-> clone.head.b]
    /\ token' = -1
    /\ cred' = -1
    /\ environment' = ""
    /\ UNCHANGED <<hookVars, stackVars, variant, envName, script, remoteTip, pushes, clone,
                   built, pm2Saved, bootRegistered, secret, originToken,
                   buildEnv>>

StartDeploy == StartDeployWithin(MaxRuns)

\* the same on the one script that takes a branch argument
StartRerun == variant = "V4" /\ StartDeployWithin(MaxReruns)

\* between runs: the run's transcript is no longer the last thing that happened
Idle ==
    /\ pc = "done"
    /\ phase' = "idle"
    /\ log' = <<>>
    /\ firstFail' = 0
    /\ firstFailRc' = 0
    /\ rc' = 0
    /\ exitStatus' = -1
    /\ arg' = NoArg
    /\ branch' = ""
    /\ drifted' = FALSE
    /\ startedOn' = NoStart
    /\ token' = -1
    /\ cred' = -1
    /\ environment' = ""
    /\ UNCHANGED <<hookVars, stackVars, variant, envName, pc, runs, script, built,
                   pm2Saved, bootRegistered, originToken, buildEnv>>

\* somebody pushes a commit to a branch of origin
RemotePush ==
    /\ Idle
    /\ pushes < MaxPushes
    /\ \E b \in Branches : remoteTip' = [remoteTip EXCEPT ![b] = @ + 1]
    /\ pushes' = pushes + 1
    /\ UNCHANGED <<clone, secret>>

\* local drift: a tracked file of the clone is edited on the instance
LocalEdit ==
    /\ Idle
    /\ clone.present /\ ~clone.dirty
    /\ clone' = [clone EXCEPT !.dirty = TRUE]
    /\ UNCHANGED <<remoteTip, pushes, secret>>

\* local drift: a commit is made on the instance
LocalCommit ==
    /\ Idle
    /\ clone.present /\ ~clone.ahead
    /\ clone' = [clone EXCEPT !.ahead = TRUE, !.dirty = FALSE]
    /\ UNCHANGED <<remoteTip, pushes, secret>>

\* the github-token secret is rotated in the secret store (a rotation shows
\* only once a clone carries the token it replaces)
RotateSecret ==
    /\ Idle
    /\ secret < MaxRotations
    /\ originToken = secret
    /\ secret' = secret + 1
    /\ UNCHANGED <<remoteTip, pushes, clone>>

(***************************************************************************)
(* The stack declarations                                                  *)
(***************************************************************************)
\* the versions of the stack the claims about its declarations are drawn from
StackVariants == {"V3", "V4"}

\* "constructor" is a key every JavaScript object literal inherits
PrototypeKeys == {"constructor"}
StackEnvNames == {"prod", "dev", "staging", "dev-api"} \cup PrototypeKeys

\* what "-c env=..." leaves in the context: nothing, or a string
Contexts == {Undefined} \cup {Str(n) : n \in StackEnvNames \cup {""}}

\* const envName = app.node.tryGetContext('env') || 'prod'
SelectEnv(ctx) == OrElse(ctx, Str("prod"))[2]

CertProd == "arn:aws:acm:eu-west-2:970547365389:certificate/03201aca-2a46-43f2-bc4d-ffdc09bfa3ef"
CertDev == "arn:aws:acm:eu-west-2:970547365389:certificate/72b645e1-3813-41bd-bbe3-f6a2d6d04d4b"

\* the object after the ||
FallbackConfig == [instanceType |-> "t3.medium", apiCertificateArn |-> "undefined"]

\* { prod: {...}, dev: {...} }[envName] || {...}: an inherited key finds a
\* truthy value that has neither property
EnvConfig(e) ==
    IF e = "prod" THEN [instanceType |-> "t3.medium", apiCertificateArn |-> CertProd]
    ELSE IF e = "dev" THEN [instanceType |-> "t3.medium", apiCertificateArn |-> CertDev]
    ELSE IF e \in PrototypeKeys
         THEN [instanceType |-> "undefined", apiCertificateArn |-> "undefined"]
    ELSE FallbackConfig

\* new ec2.Instance(..., { instanceType: envConfig.instanceType, ... }) needs a type
Synthesizes(v, e) == v = "V4" => EnvConfig(e).instanceType # "undefined"

DomainName == "firenzegroup.co"
HttpsListenerArn == "arn:aws:elasticloadbalancing:eu-west-2:970547365389:listener/app/firenze-webapi-lb/2247a915d05f217e/4d18e5818f2b8930"
AlbDnsName == "firenze-webapi-lb-1903631309.eu-west-2.elb.amazonaws.com"

\* priority: envName === 'prod' ? 10 : 20
ListenerPriority(e) == IF e = "prod" THEN 10 ELSE 20

RuleHostMutantDashApi(e) == e \o "-api." \o "firenzegroup.co"

\* hostHeaderConfig: { values: [`api.${envName}.firenzegroup.co`] }
RuleHost(e) == "api." \o e \o ".firenzegroup.co"

\* targetGroupName: `webapi-${envName}`
TargetGroupName(e) == "webapi-" \o e

\* the CfnListenerRule of the stack (V4; V3 has no load balancer)
ListenerRules(v, e) ==
    IF v = "V4"
    THEN {[env |-> e, listener |-> HttpsListenerArn, priority |-> ListenerPriority(e),
           host |-> RuleHost(e), target |-> TargetGroupName(e)]}
    ELSE {}

\* CfnDomain domainName: `${envName}.${domainName}`, prefix ''
SiteDomain(v, e) == e \o "." \o DomainName

\* the API record: its recordName, and whether that already ends with the zone name
ApiRecord(v, e) ==
    IF v = "V4"
    THEN [type |-> "CNAME", recordName |-> "api." \o e, qualified |-> FALSE,
          target |-> AlbDnsName]
    ELSE [type |-> "A", recordName |-> e \o "-api." \o DomainName, qualified |-> TRUE,
          target |-> "instancePublicIp"]

\* the name route53 creates: a recordName outside the zone gets the zone name appended
Fqdn(r) == IF r.qualified THEN r.recordName ELSE r.recordName \o "." \o DomainName

\* CfnBranch branchName
AmplifyBranch(v, e) == IF v = "V4" THEN (IF e = "prod" THEN "main" ELSE "dev") ELSE "main"

\* a rewrite rule's source: path segments, then <*> or nothing
Rule(segments, wild, target) == [segments |-> segments, wild |-> wild, target |-> target]

AssetRules(v) ==
    <<Rule(<<"assets">>, TRUE, "/assets/<*>"),
      Rule(<<"images">>, TRUE, "/images/<*>"),
      Rule(<<"videos">>, TRUE, "/videos/<*>"),
      Rule(<<".well-known">>, TRUE, "/.well-known/<*>")>>
    \o (IF v = "V4"
        THEN <<Rule(<<"cognito-config.json">>, FALSE, "/cognito-config.json")>>
        ELSE <<>>)
    \o <<Rule(<<"favicon.ico">>, FALSE, "/favicon.ico"),
         Rule(<<"robots.txt">>, FALSE, "/robots.txt")>>

CatchAll == Rule(<<>>, TRUE, "/index.html")

CustomRulesMutantCatchAllFirst(v) == <<CatchAll>> \o AssetRules(v)

\* customRules: [...]
CustomRules(v) == AssetRules(v) \o <<CatchAll>>

\* request paths, as segments
Paths ==
    {<<>>, <<"login">>, <<"index.html">>, <<"assets", "app.js">>, <<"assets", "css", "a.css">>,
     <<"images", "logo.png">>, <<"videos", "intro.mp4">>, <<".well-known", "security.txt">>,
     <<"favicon.ico">>, <<"robots.txt">>, <<"cognito-config.json">>, <<"orders", "7">>}

Matches(rule, path) ==
    IF rule.wild
    THEN /\ Len(path) >= Len(rule.segments)
         /\ SubSeq(path, 1, Len(rule.segments)) = rule.segments
    ELSE path = rule.segments

\* rules are evaluated from the top of the list; the first that matches applies
FirstMatch(rules, path) ==
    LET hits == {i \in 1..Len(rules) : Matches(rules[i], path)}
    IN IF hits = {} THEN 0 ELSE CHOOSE i \in hits : \A j \in hits : i <= j

\* names and paths the stack builds from envName
Declarations(v, e) ==
    [stackName |-> "WebInfraStack-" \o e,
     instanceName |-> "WebApiInstance-" \o e,
     parameterPath |-> "/firenze/" \o e \o "/api/*",
     certificate |-> IF v = "V4" THEN EnvConfig(e).apiCertificateArn ELSE "undefined",
     site |-> SiteDomain(v, e),
     api |-> Fqdn(ApiRecord(v, e))]

Deployed == {n \in StackEnvNames : stacks[n] # "none"}

\* the listener rules of the stacks deployed
DeployedRules == UNION {ListenerRules(stacks[n], n) : n \in Deployed}

NoSynth == [ctx |-> Undefined, variant |-> "none", env |-> "", status |-> "none"]

\* cdk deploy [-c env=...] of the stack at version v: the program fails, or the
\* load balancer refuses a rule whose priority another stack holds, or the
\* stack WebInfraStack-<env> is created or updated
Deploy ==
    \E ctx \in Contexts, v \in StackVariants :
        LET e == SelectEnv(ctx)
            taken == \E r \in ListenerRules(v, e), q \in DeployedRules :
                        q.env # e /\ q.listener = r.listener /\ q.priority = r.priority
            status == IF ~Synthesizes(v, e) THEN "synth_failed"
                      ELSE IF taken THEN "priority_in_use"
                      ELSE "deployed"
        IN /\ synth' = [ctx |-> ctx, variant |-> v, env |-> e, status |-> status]
           /\ stacks' = IF status = "deployed" THEN [stacks EXCEPT ![e] = v] ELSE stacks
           /\ UNCHANGED <<hookVars, bootVars>>

\* cdk destroy
Destroy ==
    \E n \in Deployed :
        /\ stacks' = [stacks EXCEPT ![n] = "none"]
        /\ synth' = NoSynth
        /\ UNCHANGED <<hookVars, bootVars>>

InitStackVars ==
    /\ stacks = [n \in StackEnvNames |-> "none"]
    /\ synth = NoSynth

InitBootVars ==
    /\ variant \in Variants
    /\ envName \in EnvNames
    /\ phase = "boot"
    /\ pc = UserData(variant)[1]
    /\ arg = NoArg
    /\ branch = ""
    /\ log = <<>>
    /\ firstFail = 0
    /\ firstFailRc = 0
    /\ rc = 0
    /\ exitStatus = -1
    /\ runs = 0
    /\ script = "none"
    /\ drifted = FALSE
    /\ startedOn = NoStart
    /\ remoteTip = [b \in Branches |-> 0]
    /\ pushes = 0
    /\ clone = NoClone
    /\ built = [head |-> NoCommit, clean |-> FALSE]
    /\ pm2Saved = FALSE
    /\ bootRegistered = FALSE
    /\ secret = 0
    /\ token = -1
    /\ originToken = -1
    /\ cred = -1
    /\ environment = ""
    /\ buildEnv = ""

Init == InitHookVars /\ InitBootVars /\ InitStackVars

\* the same, with the one instance the hook and the stacks are looked at beside
InitOneInstance == Init /\ variant = "V4" /\ envName = "prod"

NextBoot ==
    \/ RunPlain
    \/ WriteScript
    \/ ChmodScript
    \/ InvokeScript
    \/ ResolveBranchStep
    \/ EnterSu
    \/ FetchToken
    \/ SetUrl
    \/ GitClone
    \/ GitFetch
    \/ GitReset
    \/ GitPull
    \/ Build
    \/ Pm2Save
    \/ Pm2Startup
    \/ StartDeploy
    \/ RemotePush
    \/ LocalEdit
    \/ LocalCommit
    \/ RotateSecret

\* the V4 script run and run again
NextRerun ==
    \/ RunPlain
    \/ WriteScript
    \/ ChmodScript
    \/ InvokeScript
    \/ ResolveBranchStep
    \/ EnterSu
    \/ FetchToken
    \/ SetUrl
    \/ GitClone
    \/ GitFetch
    \/ GitReset
    \/ Build
    \/ Pm2Save
    \/ Pm2Startup
    \/ StartRerun
    \/ RemotePush
    \/ LocalEdit
    \/ LocalCommit

NextHook ==
    \/ Invoke
    \/ InvokeOnReturned

\* the bootstrap procedure on one instance
Spec == Init /\ [][NextBoot]_vars

\* the identity hook
SpecHook == InitOneInstance /\ [][NextHook]_vars

NextStack ==
    \/ Deploy
    \/ Destroy

\* the instances of the V4 stack
InitV4 == Init /\ variant = "V4"

\* deploy-api of the V4 stack, run again with and without a branch argument
SpecRerun == InitV4 /\ [][NextRerun]_vars

\* stacks are deployed and destroyed
SpecStack == InitOneInstance /\ [][NextStack]_vars

(***************************************************************************)
(* Claims about the identity hook (checked under SpecHook)                 *)
(***************************************************************************)
Calls == 1..Len(hookLog)
DomainAttr(e) == e.request.userAttributes["custom:domainId"]
HasAttributes(e) == e.request.defined /\ e.request.hasUserAttributes
BothClaims(e, v) ==
    /\ e.response.defined
    /\ e.response.accessTokenGeneration = v
    /\ e.response.idTokenGeneration = v

\* C1: whenever userAttributes holds custom:domainId with a string value V,
\* the empty string included, the response sets domainId to V in both the
\* access-token and the ID-token overrides.
C1_AttributeCopied ==
    \A i \in Calls :
        HasAttributes(hookLog[i].in) /\ DomainAttr(hookLog[i].in) # Undefined
            => /\ hookLog[i].status = "returned"
               /\ BothClaims(hookLog[i].out, DomainAttr(hookLog[i].in))

\* C2: whenever userAttributes omits custom:domainId, the hook returns and
\* both overrides carry domainId = null.
C2_AbsentGivesNull ==
    \A i \in Calls :
        HasAttributes(hookLog[i].in) /\ DomainAttr(hookLog[i].in) = Undefined
            => /\ hookLog[i].status = "returned"
               /\ BothClaims(hookLog[i].out, Null)

C2_Witness ==
    \E i \in Calls :
        /\ HasAttributes(hookLog[i].in)
        /\ DomainAttr(hookLog[i].in) = Undefined
        /\ hookLog[i].in.request.userAttributes["email"] # Undefined
        /\ hookLog[i].status = "returned"

\* C3: the hook never fails; an event without request or without
\* request.userAttributes is answered with a null domainId claim.
C3_NeverFails ==
    \A i \in Calls :
        /\ hookLog[i].status = "returned"
        /\ ~HasAttributes(hookLog[i].in) => BothClaims(hookLog[i].out, Null)

\* C4: the outcome of an invocation is a function of the event's request
\* alone: two invocations on the same request, whatever response the event
\* carried already (a returned event passed in again included) and whatever
\* was invoked before, end the same way and, when they return, with the same
\* claim overrides.
C4_PureFunction ==
    \A i, j \in Calls :
        hookLog[i].in.request = hookLog[j].in.request
            => /\ hookLog[i].status = hookLog[j].status
               /\ hookLog[i].status = "returned"
                     => hookLog[i].out.response = hookLog[j].out.response

C4_Witness ==
    /\ Len(hookLog) >= 2
    /\ hookLog[1].status = "returned"
    /\ hookLog[1].in.response = StaleResponse
    /\ hookLog[2].in = hookLog[1].out
    /\ hookLog[2].in # hookLog[1].in

\* C16: an invocation changes nothing of the event but its response: the
\* request and every other field come back as they went in, a response
\* already on the event is replaced whole by the two claim overrides, and
\* nothing carries over from one invocation to a later one.
C16_FrameEffect ==
    \A i \in Calls :
        /\ hookLog[i].out.request = hookLog[i].in.request
        /\ hookLog[i].out.triggerSource = hookLog[i].in.triggerSource
        /\ hookLog[i].status = "returned"
              => hookLog[i].out.response
                   = Response(OrElse(DomainAttr(hookLog[i].in), Null))
        /\ \A j \in Calls :
              hookLog[i].in = hookLog[j].in
                  => /\ hookLog[i].status = hookLog[j].status
                     /\ hookLog[i].out = hookLog[j].out

C16_Witness ==
    \E i \in Calls :
        /\ i > 1
        /\ hookLog[i].status = "returned"
        /\ hookLog[i].in.response = StaleResponse
        /\ hookLog[i].in.request.userAttributes["email"] # Undefined
        /\ hookLog[i].in.triggerSource = "TokenGeneration_RefreshTokens"
        /\ hookLog[i].in # hookLog[1].in

(***************************************************************************)
(* Claims about the bootstrap procedure (checked under Spec)               *)
(***************************************************************************)
\* the step of the specification's list (4.2, steps 1-8) a command belongs to;
\* 0 for the commands the list does not mention
SpecStep(cmd) ==
    CASE cmd = "yum_update" -> 1
      [] cmd \in {"node_setup", "yum_install", "npm_install"} -> 2
      [] cmd \in {"mkdir", "chown"} -> 3
      [] cmd = "fetch_token" -> 4
      [] cmd = "resolve_branch" -> 5
      [] cmd \in {"git_clone", "set_url", "git_fetch", "git_reset", "git_pull"} -> 6
      [] cmd \in {"chmod_build", "build"} -> 7
      [] cmd \in {"pm2_save_user", "pm2_startup", "pm2_save_root"} -> 8
      [] OTHER -> 0

Finished == pc = "done" /\ phase # "idle"

\* the sync step of the current run has completed
SyncDone ==
    \E i \in 1..Len(log) :
        /\ log[i] \in {"git_clone", "git_reset", "git_pull"}
        /\ (firstFail = 0 \/ firstFail > i)

\* the branch the variant's sync commands name
SyncTarget == IF variant = "V4" THEN branch ELSE "main"

TreeAt(c) == clone.present /\ clone.head = c /\ ~clone.ahead /\ ~clone.dirty

\* C5: once a step of the list has failed, no later step of the list runs.
C5_FailFast ==
    firstFail # 0 /\ SpecStep(log[firstFail]) # 0
        => \A i \in (firstFail + 1)..Len(log) : SpecStep(log[i]) = 0

\* C6: a finished run exits with 0 exactly when no step failed, and
\* otherwise with the (non-zero) status of the first step that failed.
C6_ExitStatus ==
    Finished =>
        /\ firstFail = 0 => exitStatus = 0
        /\ firstFail # 0 /\ SpecStep(log[firstFail]) # 0
              => exitStatus # 0 /\ exitStatus = firstFailRc

\* C7 as the specification lists the steps: 1 update, 2 install, 3 directory,
\* 4 credential, 5 target branch, 6 sync, 7 build, 8 persistence.
C7_ListedOrder ==
    \A i, j \in 1..Len(log) :
        i < j /\ SpecStep(log[i]) # 0 /\ SpecStep(log[j]) # 0
            => SpecStep(log[i]) <= SpecStep(log[j])

\* the order of the steps in the scripts: the target branch is resolved
\* (where it is resolved at all) before the directory is created
ScriptRank(cmd) ==
    CASE SpecStep(cmd) = 5 -> 3
      [] SpecStep(cmd) \in {3, 4} -> SpecStep(cmd) + 1
      [] OTHER -> SpecStep(cmd)

\* C7, amended: the steps run one at a time in the order 1 update, 2 install,
\* 5 target branch (V4 only; V3 has no such step), 3 directory, 4 credential,
\* 6 sync, 7 build, 8 persistence, and no command runs twice in a run.
C7_ScriptOrder ==
    /\ \A i, j \in 1..Len(log) :
          i < j /\ SpecStep(log[i]) # 0 /\ SpecStep(log[j]) # 0
              => ScriptRank(log[i]) <= ScriptRank(log[j])
    /\ \A i, j \in 1..Len(log) : i < j => log[i] # log[j]
    /\ variant # "V4" => ~InSeq(log, "resolve_branch")
    /\ variant = "V4" /\ InSeq(log, "mkdir") => InSeq(log, "resolve_branch")

C7_Witness ==
    /\ Finished /\ exitStatus = 0 /\ firstFail = 0
    /\ variant = "V4" /\ phase = "boot"
    /\ InSeq(log, "resolve_branch") /\ InSeq(log, "fetch_token")
    /\ InSeq(log, "pm2_save_root")

\* the branch the specification resolves
ExpectedBranch(e, a) ==
    IF a.supplied THEN a.value ELSE IF e = "prod" THEN "main" ELSE "dev"

\* C8: the branch synchronized is main for prod and dev for any other
\* environment when no argument is given, and the argument when one is given.
C8_TargetBranch ==
    SyncDone => clone.present /\ clone.head.b = ExpectedBranch(envName, arg)

\* C9: a re-run on a clone that is dirty or has local commits leaves, once
\* the sync step is through, the tree at the remote tip of the target branch,
\* with no local change and no merge commit.
C9_HardReset ==
    phase = "deploy" /\ drifted /\ SyncDone => TreeAt(Tip(SyncTarget))

FinalState ==
    [tree |-> <<clone.present, clone.head, clone.ahead, clone.dirty>>,
     built |-> built, saved |-> pm2Saved, registered |-> bootRegistered]

\* what one successful run leaves on a fresh instance
FreshFinal(b) ==
    [tree |-> <<TRUE, Tip(b), FALSE, FALSE>>,
     built |-> [head |-> Tip(b), clean |-> TRUE], saved |-> TRUE, registered |-> TRUE]

\* C10: every run that ends with status 0, whatever failed or drifted before
\* it, ends in the state one successful run leaves on a fresh instance.
C10_Convergent ==
    Finished /\ exitStatus = 0 => FinalState = FreshFinal(SyncTarget)

\* the steps the specification calls privileged, and those it calls application-level
PrivilegedSteps == {"yum_update", "node_setup", "yum_install", "npm_install", "chown",
                    "pm2_startup"}
ApplicationSteps == {"fetch_token", "git_clone", "set_url", "git_fetch", "git_reset",
                     "git_pull", "chmod_build", "build"}

\* C11: package installation, ownership changes and boot-time registration
\* run only as root; credential retrieval, source synchronization and the
\* delegation to the build script run only as ec2-user.
C11_PrivilegeSeparation ==
    \A i \in 1..Len(log) :
        /\ log[i] \in PrivilegedSteps => UserOf(variant, log[i]) = "root"
        /\ log[i] \in ApplicationSteps => UserOf(variant, log[i]) = "ec2-user"

\* a transfer of this run (git fetch or git pull on the existing clone) comes
\* after set-url, which comes after the token was fetched, and uses that token
CredentialFresh ==
    \A j \in 1..Len(log) :
        log[j] \in {"git_fetch", "git_pull"}
            => /\ \E i \in 1..(j - 1) :
                     /\ log[i] = "set_url"
                     /\ \E k \in 1..(i - 1) : log[k] = "fetch_token"
               /\ token = secret
               /\ cred = token

\* C17: without a clone the repository is cloned at the resolved target
\* branch; with one, the origin URL is first set to carry the credential
\* fetched in this run, then the target branch is fetched and the tree
\* hard-reset to it, so the fetch never uses a stale stored credential.
C17_SyncStep ==
    /\ SyncDone /\ InSeq(log, "git_clone")
          => /\ clone.present
             /\ clone.head.b = ExpectedBranch(envName, arg)
             /\ cred = secret
    /\ CredentialFresh
    /\ SyncDone /\ InSeq(log, "set_url")
          => /\ clone.present
             /\ clone.head.b = ExpectedBranch(envName, arg)
             /\ clone.head = Tip(clone.head.b)
             /\ ~clone.ahead /\ ~clone.dirty

\* C18: whenever scripts/deploy-ec2.sh is run, the ENVIRONMENT it sees is
\* "production" for the environment name prod and the environment name itself
\* otherwise; it was exported before the script started, whatever the branch
\* argument.
C18_EnvironmentLabel ==
    InSeq(log, "build")
        => /\ buildEnv = (IF envName = "prod" THEN "production" ELSE envName)
           /\ InSeq(log, "su_env")
           /\ IndexOf(log, "su_env") < IndexOf(log, "build")

C18_Witness ==
    /\ phase = "deploy" /\ Finished
    /\ InSeq(log, "build")
    /\ envName = "prod"
    /\ arg.supplied /\ arg.value = "dev"
    /\ buildEnv = "production"

\* what the instance deploys of its own accord is what the site tracks
SiteTracksInstanceDefault ==
    SyncDone /\ ~arg.supplied
        => clone.present /\ clone.head.b = AmplifyBranch(variant, envName)

\* C19: the branch the Amplify application tracks is the branch deploy-api
\* synchronizes when called without an argument: main for prod, dev for any
\* other environment, both of them.
C19_SameDefaultBranch ==
    SyncDone /\ ~arg.supplied
        => /\ clone.present /\ clone.head.b = AmplifyBranch(variant, envName)
           /\ AmplifyBranch(variant, envName) = (IF envName = "prod" THEN "main" ELSE "dev")

\* the sync step of this run went through the arm for an existing clone
Resynced == SyncDone /\ InSeq(log, "set_url")

\* C21: a re-run on an existing clone with a branch argument B that is not
\* the branch checked out leaves the tree at the remote tip of B, the local
\* branch checked out under the name it had, its ref at that tip, and no
\* local branch named B; a later run without an argument leaves the tree at
\* the remote tip of the environment's default branch.
C21_RerunOtherBranch ==
    /\ Resynced /\ arg.supplied /\ arg.value \in Branches /\ arg.value # startedOn.local
          => /\ TreeAt(Tip(arg.value))
             /\ clone.localBranch = startedOn.local
             /\ arg.value \notin clone.locals
    /\ Resynced /\ ~arg.supplied
          => /\ TreeAt(Tip(IF envName = "prod" THEN "main" ELSE "dev"))
             /\ clone.localBranch = startedOn.local

\* the later run: the tree was on another branch than the default when it began
C21_Witness ==
    /\ Resynced /\ ~arg.supplied
    /\ runs = 2
    /\ envName = "dev"
    /\ startedOn = [local |-> "dev", tree |-> "main"]
    /\ pushes > 0
    /\ clone.head = Tip("dev")
    /\ clone.localBranch = "dev"
    /\ clone.locals = {"dev"}

(***************************************************************************)
(* What the claims refuted above come to on the parts of the code that do  *)
(* what they say                                                           *)
(***************************************************************************)
\* C1 for the values the handler does copy: every non-empty string
AttributeCopiedNonEmpty ==
    \A i \in Calls :
        HasAttributes(hookLog[i].in) /\ Truthy(DomainAttr(hookLog[i].in))
            => /\ hookLog[i].status = "returned"
               /\ BothClaims(hookLog[i].out, DomainAttr(hookLog[i].in))

\* C5 and C6 inside deploy-api, which runs under "set -e"
FailFastInDeployApi ==
    phase = "deploy" /\ firstFail # 0 => Len(log) = firstFail /\ pc = "done"

ExitStatusInDeployApi ==
    phase = "deploy" /\ Finished =>
        /\ exitStatus = 0 <=> firstFail = 0
        /\ firstFail # 0 => exitStatus = firstFailRc

\* C8, C9 and C10 on the V4 script
TargetBranchV4 ==
    variant = "V4" /\ ~(arg.supplied /\ arg.value = "") => C8_TargetBranch

HardResetV4 == variant = "V4" => C9_HardReset

ConvergentV4 == variant = "V4" => C10_Convergent

\* C11 on the scripts that fetch the token inside the su block
PrivilegeSeparationV3V4 == variant # "V2" => C11_PrivilegeSeparation

\* C17 on the V4 script
SyncStepV4 ==
    variant = "V4" /\ ~(arg.supplied /\ arg.value = "") => C17_SyncStep

\* C19 on the V4 stack
SameDefaultBranchV4 == variant = "V4" => C19_SameDefaultBranch

(***************************************************************************)
(* Claims about the stack declarations (checked under SpecStack)           *)
(***************************************************************************)
\* the listener rules declared: those of the stacks deployed and those of
\* the deployment just submitted
DeclaredRules ==
    DeployedRules
    \cup (IF synth.status \in {"deployed", "priority_in_use"}
          THEN ListenerRules(synth.variant, synth.env) ELSE {})

\* C12: the listener rules that stacks of two distinct environment names
\* declare on the same listener have different priorities.
C12_UniquePriorities ==
    \A r, q \in DeclaredRules :
        r.env # q.env /\ r.listener = q.listener => r.priority # q.priority

\* the sources the specification calls static-asset rules
StaticAssetSources ==
    {<<"assets">>, <<"images">>, <<"videos">>, <<".well-known">>, <<"favicon.ico">>,
     <<"robots.txt">>}

\* C13: in the rewrite-rule list of every stack deployed, every static-asset
\* rule is there and comes before the catch-all, the catch-all is last, and
\* the first rule a path under /assets/ matches is the asset rule, never the
\* fallback to /index.html.
C13_AssetsBeforeCatchAll ==
    \A n \in Deployed :
        LET rules == CustomRules(stacks[n])
        IN  /\ rules[Len(rules)] = CatchAll
            /\ \A i \in 1..(Len(rules) - 1) : rules[i] # CatchAll
            /\ \A a \in StaticAssetSources :
                  \E i \in 1..(Len(rules) - 1) : rules[i].segments = a
            /\ \A p \in Paths :
                  Len(p) > 1 /\ p[1] = "assets"
                      => /\ FirstMatch(rules, p) # 0
                         /\ rules[FirstMatch(rules, p)].segments = <<"assets">>
                         /\ rules[FirstMatch(rules, p)].target # "/index.html"

C13_Witness ==
    /\ \E n \in Deployed : stacks[n] = "V3"
    /\ \E n \in Deployed : stacks[n] = "V4"
    /\ \E n \in Deployed :
          /\ FirstMatch(CustomRules(stacks[n]), <<"login">>) = Len(CustomRules(stacks[n]))
          /\ FirstMatch(CustomRules(stacks[n]), <<"assets", "app.js">>) = 1

\* the host names a stack deployed for n declares
Hostnames(n) == {SiteDomain(stacks[n], n), Fqdn(ApiRecord(stacks[n], n))}

\* C14: every stack deployed declares the site name E.firenzegroup.co and
\* the API name E-api.firenzegroup.co, and the stacks of two distinct
\* environment names share no host name.
C14_Hostnames ==
    /\ \A n \in Deployed :
          /\ SiteDomain(stacks[n], n) = n \o ".firenzegroup.co"
          /\ Fqdn(ApiRecord(stacks[n], n)) = n \o "-api.firenzegroup.co"
    /\ \A n, m \in Deployed : n # m => Hostnames(n) \cap Hostnames(m) = {}

\* the deployment just submitted got a complete configuration
CompleteConfiguration ==
    /\ synth.ctx = Undefined => synth.env = "prod"
    /\ synth.ctx # Undefined /\ synth.ctx # Str("") => synth.env = synth.ctx[2]
    /\ synth.variant = "V4" =>
          /\ EnvConfig(synth.env).instanceType = "t3.medium"
          /\ synth.env \notin {"prod", "dev"} => EnvConfig(synth.env) = FallbackConfig
          /\ synth.status # "synth_failed"

\* every declaration of a stack deployed carries the one environment name
SingleName ==
    \A n \in Deployed :
        LET d == Declarations(stacks[n], n)
        IN  /\ d.stackName = "WebInfraStack-" \o n
            /\ d.instanceName = "WebApiInstance-" \o n
            /\ d.parameterPath = "/firenze/" \o n \o "/api/*"
            /\ d.site = n \o "." \o DomainName
            /\ stacks[n] = "V4" =>
                  /\ d.api = "api." \o n \o "." \o DomainName
                  /\ d.certificate = (IF n = "prod" THEN CertProd
                                      ELSE IF n = "dev" THEN CertDev ELSE "undefined")

\* C15: without an environment name the name is prod; a name other than
\* prod and dev gets the fallback configuration and the deployment does not
\* fail for it; the one name chosen is the one every declaration carries.
C15_EnvironmentSelection ==
    synth.status # "none" => CompleteConfiguration /\ SingleName

\* the target groups a request for host h is forwarded to: those of the
\* rules whose host-header condition h meets, the lowest priority first
Forwarded(h) ==
    LET hits == {r \in DeployedRules : r.host = h}
    IN  {r.target : r \in {x \in hits : \A y \in hits : x.priority <= y.priority}}

PriorityProdApart ==
    \A r, q \in DeclaredRules :
        r.env = "prod" /\ q.env # "prod" => r.priority # q.priority

\* C14 on the V3 stack: the names
HostnamesV3 ==
    \A n \in Deployed :
        stacks[n] = "V3"
            => /\ SiteDomain("V3", n) = n \o ".firenzegroup.co"
               /\ Fqdn(ApiRecord("V3", n)) = n \o "-api.firenzegroup.co"

\* C14 on V4 stacks: no host name shared
HostnamesApartV4 ==
    \A n, m \in Deployed :
        n # m /\ stacks[n] = "V4" /\ stacks[m] = "V4"
            => Hostnames(n) \cap Hostnames(m) = {}

\* C15 for the names no object literal inherits
EnvironmentSelectionOwnKeys ==
    synth.env \notin PrototypeKeys => C15_EnvironmentSelection

====
